---- MODULE Spec2Model ----
(***************************************************************************)
(* Model of extras/helpers.py: characterize_phase_space(line, plot).       *)
(*                                                                         *)
(* Lengths are integers counted in units of 1e-6/2048 m.  In that unit     *)
(* the starting bracket [0, 0.03] is [0, 61440000] and each of the fifteen *)
(* midpoints the bisection can compute is an integer, so the arithmetic of *)
(* the loop is exact.  Normalised coordinates are small integers; the      *)
(* optics map between the two planes is Normalise/Denormalise below.       *)
(*                                                                         *)
(* Array indices are the 0-based indices of the Python code.               *)
(***************************************************************************)
EXTENDS Integers, Sequences, FiniteSets, TLC

VARIABLES
    pc,               \* position in characterize_phase_space
    plot,             \* the plot argument
    xstar,            \* the line: stability boundary of the tracker, or NoBoundary
    calls,            \* the tracking calls issued so far, in order
    record,           \* the sampler's point cloud (the offsets it tracked)
    x_stable,         \* bisection bracket, lower end
    x_unstable,       \* bisection bracket, upper end
    iterations,       \* number of loop bodies executed (history)
    testedCrossed,    \* offsets tested in the loop whose trajectory went beyond the septum (history)
    testedStayed,     \* offsets tested in the loop whose trajectory never did (history)
    rec_separatrix,   \* trajectory tracked from x_unstable
    i_septum,         \* index of the separatrix sample closest to the septum
    poly_sep,         \* degree-1 fit: slope kept as the pair dpx, dx
    rec_triangle,     \* trajectory tracked from x_stable (never reordered)
    i_sorted,         \* argsort of the triangle samples by angle
    curve,            \* x/px/x_norm/px_norm _triangle: the samples in sorted order
    i_fp,             \* i_fp1, i_fp2, i_fp3
    fp,               \* x_fp, px_fp, x_norm_fp, px_norm_fp
    stable_area,      \* the determinant
    figure,           \* what has been drawn
    result            \* the returned dictionary

vars == <<pc, plot, xstar, calls, record, x_stable, x_unstable, iterations,
          testedCrossed, testedStayed, rec_separatrix, i_septum, poly_sep,
          rec_triangle, i_sorted, curve, i_fp, fp, stable_area, figure, result>>

(***************************************************************************)
(* Bounds of the model.                                                    *)
(***************************************************************************)
\* Turns recorded per tracking call (the code tracks 1000).
NumTurns == 7
\* The threshold trackers of SpecLocator have their boundary on this many grid lines.
XStarGrid == 24

(***************************************************************************)
(* Constants of the program, in model units.                               *)
(***************************************************************************)
X_STABLE_0 == 0
X_UNSTABLE_0 == 61440000
TOLERANCE == 2048
X_SEPTUM == 71680000
SLOPE_OFFSET == 3
MASK_INVERSE == 5
\* Optics of the line: x_norm = x / SQRT_BETX, px_norm = ALFX * x_norm + px.
SQRT_BETX == 5120000
ALFX == 1

NoBoundary == -1
None == <<>>

Abs(v) == IF v < 0 THEN -v ELSE v

(***************************************************************************)
(* The tracker and the optics (external collaborators).                    *)
(***************************************************************************)
Normalise(s) ==
    [x_norm |-> s.x \div SQRT_BETX, px_norm |-> ALFX * (s.x \div SQRT_BETX) + s.px]

Denormalise(xn, pn, st) ==
    [x |-> xn * SQRT_BETX, px |-> pn - ALFX * xn, state |-> st]

\* Samples a trajectory may hold, by name (normalised coordinates, state).
V1 == Denormalise(0, 10, 1)
V2 == Denormalise(-8, -5, 1)
V3 == Denormalise(8, -5, 1)
V2t == Denormalise(-8, -6, 1)
I1 == Denormalise(0, 8, 1)
I2 == Denormalise(-7, -4, 1)
Beyond == Denormalise(15, 0, 1)
Touching == Denormalise(14, 0, 1)
Lost == Denormalise(0, 0, 0)

Orbits == {<<V1, V2, V3>>, <<V2, V3, V1>>, <<V1, I1, V3>>, <<I1, V3, V1>>}
Strays == {I2, V2t, Beyond, Touching, Lost}

\* A period-3 orbit over NumTurns turns, with sample j (0 = none) replaced by s.
Trajectory(o, j, s) ==
    [k \in 1..NumTurns |-> IF k = j THEN s ELSE o[((k - 1) % 3) + 1]]

Records ==
    {Trajectory(o, 0, Lost) : o \in Orbits}
        \cup {Trajectory(o, j, s) : o \in Orbits, j \in 1..NumTurns, s \in Strays}

\* Whether a trajectory goes beyond the septum at least once.
Crosses(rec) == \E k \in 1..Len(rec) : rec[k].x > X_SEPTUM

RecordsCrossing == {r \in Records : Crosses(r)}
RecordsStaying == {r \in Records : ~Crosses(r)}

\* line.track at offset x: a deterministic tracker with stability boundary xstar
\* returns a crossing trajectory exactly for x >= xstar; without a declared
\* boundary any trajectory may come back.
Track(x) ==
    IF xstar = NoBoundary THEN Records
    ELSE IF x >= xstar THEN RecordsCrossing ELSE RecordsStaying

\* Largest x a trajectory reaches.
MaxX(rec) == CHOOSE m \in {rec[k].x : k \in 1..Len(rec)} : \A k \in 1..Len(rec) : rec[k].x <= m

\* The bisection loop reads of rec_test only whether a sample lies beyond the
\* septum and drops the record at the next call, so one trajectory for each
\* excursion the tracker can answer with stands for all of them.
Probes(S) == {CHOOSE r \in S : MaxX(r) = m : m \in {MaxX(r) : r \in S}}
ProbesAny == Probes(Records)
ProbesCrossing == Probes(RecordsCrossing)
ProbesStaying == Probes(RecordsStaying)
TrackTest(x) ==
    IF xstar = NoBoundary THEN ProbesAny
    ELSE IF x >= xstar THEN ProbesCrossing ELSE ProbesStaying

\* x_gen = np.linspace(0, 2.5e-2, 25)
XGen == [k \in 1..25 |-> ((k - 1) * 51200000) \div 24]

(***************************************************************************)
(* Helpers of the computation.                                             *)
(***************************************************************************)
At(s, i) == s[i + 1]

\* Python subscript: a negative index counts from the end.
InRange(s, i) == -Len(s) <= i /\ i < Len(s)
PyIndex(s, i) == IF i >= 0 THEN s[i + 1] ELSE s[Len(s) + i + 1]

\* np.argmin / np.argmax: the first index of the extreme value.
ArgMin(a) ==
    LET values == {At(a, i) : i \in 0..(Len(a) - 1)}
        least == CHOOSE v \in values : \A w \in values : v <= w
    IN CHOOSE i \in 0..(Len(a) - 1) :
           At(a, i) = least /\ \A j \in 0..(i - 1) : At(a, j) # least

\* Variant: the last index of the greatest value.
ArgMaxLast(a) ==
    LET values == {At(a, i) : i \in 0..(Len(a) - 1)}
        greatest == CHOOSE v \in values : \A w \in values : w <= v
    IN CHOOSE i \in 0..(Len(a) - 1) :
           At(a, i) = greatest /\ \A j \in (i + 1)..(Len(a) - 1) : At(a, j) # greatest

ArgMax(a) ==
    LET values == {At(a, i) : i \in 0..(Len(a) - 1)}
        greatest == CHOOSE v \in values : \A w \in values : w <= v
    IN CHOOSE i \in 0..(Len(a) - 1) :
           At(a, i) = greatest /\ \A j \in 0..(i - 1) : At(a, j) # greatest

\* Variant: half the width, the lower end forgotten.
MidpointOfWidth(lo, hi) == (hi - lo) \div 2

Midpoint(lo, hi) == (lo + hi) \div 2

\* Variant: the tolerance ten times too large (1e-5).
LoopConditionLoose(lo, hi) == hi - lo > 10 * TOLERANCE

LoopCondition(lo, hi) == hi - lo > TOLERANCE

\* Variant: a sample on the septum counts as beyond it (>= for >).
IsUnstableOrTouching(rec) == \E k \in 1..Len(rec) : rec[k].x >= X_SEPTUM

\* (rec_test.x > x_septum).any()
IsUnstable(rec) == \E k \in 1..Len(rec) : rec[k].x > X_SEPTUM

(***************************************************************************)
(* Initial states.                                                         *)
(***************************************************************************)
InitLocals ==
    /\ pc = "sample"
    /\ calls = <<>>
    /\ record = None
    /\ x_stable = X_STABLE_0
    /\ x_unstable = X_UNSTABLE_0
    /\ iterations = 0
    /\ testedCrossed = {}
    /\ testedStayed = {}
    /\ rec_separatrix = None
    /\ i_septum = 0
    /\ poly_sep = None
    /\ rec_triangle = None
    /\ i_sorted = None
    /\ curve = None
    /\ i_fp = None
    /\ fp = None
    /\ stable_area = 0
    /\ figure = None
    /\ result = None

(***************************************************************************)
(* Sampler.                                                                *)
(***************************************************************************)
Sampler ==
    /\ pc = "sample"
    /\ calls' = Append(calls, XGen)
    /\ record' = XGen
    /\ pc' = "bisect"
    /\ UNCHANGED <<plot, xstar, x_stable, x_unstable, iterations, testedCrossed,
                   testedStayed, rec_separatrix, i_septum, poly_sep, rec_triangle,
                   i_sorted, curve, i_fp, fp, stable_area, figure, result>>

(***************************************************************************)
(* Separatrix locator.                                                     *)
(***************************************************************************)
BisectStep ==
    /\ pc = "bisect"
    /\ LoopCondition(x_stable, x_unstable)
    /\ LET x_test == Midpoint(x_stable, x_unstable) IN
       \E rec_test \in TrackTest(x_test) :
          /\ calls' = Append(calls, x_test)
          /\ IF IsUnstable(rec_test)
             THEN x_unstable' = x_test /\ x_stable' = x_stable
             ELSE x_stable' = x_test /\ x_unstable' = x_unstable
          /\ IF Crosses(rec_test)
             THEN /\ testedCrossed' = testedCrossed \cup {x_test}
                  /\ testedStayed' = testedStayed
             ELSE /\ testedStayed' = testedStayed \cup {x_test}
                  /\ testedCrossed' = testedCrossed
    /\ iterations' = iterations + 1
    /\ UNCHANGED <<pc, plot, xstar, record, rec_separatrix, i_septum, poly_sep,
                   rec_triangle, i_sorted, curve, i_fp, fp, stable_area, figure,
                   result>>

LoopExit ==
    /\ pc = "bisect"
    /\ ~LoopCondition(x_stable, x_unstable)
    /\ pc' = "track_separatrix"
    /\ UNCHANGED <<plot, xstar, calls, record, x_stable, x_unstable, iterations,
                   testedCrossed, testedStayed, rec_separatrix, i_septum, poly_sep,
                   rec_triangle, i_sorted, curve, i_fp, fp, stable_area, figure,
                   result>>

(***************************************************************************)
(* Boundary characterizer: slope of the separatrix at the septum.          *)
(***************************************************************************)
TrackSeparatrix ==
    /\ pc = "track_separatrix"
    /\ \E rec \in Track(x_unstable) : rec_separatrix' = rec
    /\ calls' = Append(calls, x_unstable)
    /\ pc' = "slope"
    /\ UNCHANGED <<plot, xstar, record, x_stable, x_unstable, iterations,
                   testedCrossed, testedStayed, i_septum, poly_sep, rec_triangle,
                   i_sorted, curve, i_fp, fp, stable_area, figure, result>>

\* np.argmin(np.abs(x_separ - x_septum))
ClosestToSeptum(rec) == ArgMin([k \in 1..Len(rec) |-> Abs(rec[k].x - X_SEPTUM)])

\* np.polyfit through two points: the slope is dpx / dx, kept as that pair with
\* the point the line passes through (dx = 0 is numpy's rank-deficient fit,
\* which warns and returns).
PolyFit(lo, hi) == [dpx |-> hi.px - lo.px, dx |-> hi.x - lo.x, x0 |-> lo.x, px0 |-> lo.px]

SlopeAtSeptum ==
    /\ pc = "slope"
    /\ LET i == ClosestToSeptum(rec_separatrix) IN
       /\ i_septum' = i
       /\ IF InRange(rec_separatrix, i - SLOPE_OFFSET) /\ InRange(rec_separatrix, i + SLOPE_OFFSET)
          THEN /\ poly_sep' = PolyFit(PyIndex(rec_separatrix, i - SLOPE_OFFSET),
                                      PyIndex(rec_separatrix, i + SLOPE_OFFSET))
               /\ pc' = "track_triangle"
          ELSE /\ poly_sep' = poly_sep
               /\ pc' = "IndexError"
    /\ UNCHANGED <<plot, xstar, calls, record, x_stable, x_unstable, iterations,
                   testedCrossed, testedStayed, rec_separatrix, rec_triangle,
                   i_sorted, curve, i_fp, fp, stable_area, figure, result>>

(***************************************************************************)
(* Boundary characterizer: the stable triangle and its fixed points.       *)
(***************************************************************************)
TrackTriangle ==
    /\ pc = "track_triangle"
    /\ \E rec \in Track(x_stable) : rec_triangle' = rec
    /\ calls' = Append(calls, x_stable)
    /\ pc' = "sort"
    /\ UNCHANGED <<plot, xstar, record, x_stable, x_unstable, iterations,
                   testedCrossed, testedStayed, rec_separatrix, i_septum, poly_sep,
                   i_sorted, curve, i_fp, fp, stable_area, figure, result>>

\* np.angle orders the plane from -pi (exclusive) to pi: below the axis, the
\* positive axis with the origin (angle 0), above the axis, the negative axis.
Sector(z) ==
    IF z.px_norm < 0 THEN 0
    ELSE IF z.px_norm = 0 /\ z.x_norm >= 0 THEN 1
    ELSE IF z.px_norm > 0 THEN 2
    ELSE 3

AngleLess(z, w) ==
    \/ Sector(z) < Sector(w)
    \/ /\ Sector(z) = Sector(w)
       /\ Sector(z) \in {0, 2}
       /\ z.x_norm * w.px_norm - z.px_norm * w.x_norm > 0

\* np.argsort(theta): indices in ascending angle, equal angles in index order.
\* Index i comes before index j when its angle is smaller, or equal with i < j.
ComesBefore(zs, i, j) ==
    \/ AngleLess(At(zs, i), At(zs, j))
    \/ (~AngleLess(At(zs, j), At(zs, i)) /\ i < j)

ArgSortByAngle(zs) ==
    SortSeq([k \in 1..Len(zs) |-> k - 1], LAMBDA i, j : ComesBefore(zs, i, j))

NormalisedOf(rec) == [k \in 1..Len(rec) |-> Normalise(rec[k])]

SortTriangle ==
    /\ pc = "sort"
    /\ LET nc_triangle == NormalisedOf(rec_triangle) IN
          /\ i_sorted' = ArgSortByAngle(nc_triangle)
          /\ curve' = [k \in 1..Len(rec_triangle) |->
                          [x |-> At(rec_triangle, i_sorted'[k]).x,
                           px |-> At(rec_triangle, i_sorted'[k]).px,
                           x_norm |-> At(nc_triangle, i_sorted'[k]).x_norm,
                           px_norm |-> At(nc_triangle, i_sorted'[k]).px_norm]]
    /\ pc' = "fixed_points"
    /\ UNCHANGED <<plot, xstar, calls, record, x_stable, x_unstable, iterations,
                   testedCrossed, testedStayed, rec_separatrix, i_septum, poly_sep,
                   rec_triangle, i_fp, fp, stable_area, figure, result>>

\* |z|^2; np.abs orders the samples as its square does.
RadiusSq(z) == z.x_norm * z.x_norm + z.px_norm * z.px_norm

\* np.abs(z - z1 * exp(turn * 1j * 2/3 * pi)) < 0.2 * abs(z1), turn = 1 or -1.
\* With a + ib = z * conj(z1) the squared distance is |z|^2 + |z1|^2 + a - turn*b*sqrt(3),
\* so the test is  L < sqrt(3) * B  for the integers L and B below.
WithinDisk(z, z1, turn) ==
    LET a == z.x_norm * z1.x_norm + z.px_norm * z1.px_norm
        b == z.px_norm * z1.x_norm - z.x_norm * z1.px_norm
        m == MASK_INVERSE * MASK_INVERSE
        L == m * (RadiusSq(z) + RadiusSq(z1) + a) - RadiusSq(z1)
        B == m * turn * b
    IN IF B > 0 THEN L < 0 \/ L * L < 3 * B * B
       ELSE L < 0 /\ L * L > 3 * B * B

\* np.argmax(r_triangle_norm * mask)
MaskedArgMax(zs, z1, turn) ==
    ArgMax([k \in 1..Len(zs) |-> IF WithinDisk(zs[k], z1, turn) THEN RadiusSq(zs[k]) ELSE 0])

FirstFixedPoint(zs) == ArgMax([k \in 1..Len(zs) |-> RadiusSq(zs[k])])

FixedPoints ==
    /\ pc = "fixed_points"
    /\ LET z_triangle_norm == NormalisedOf(rec_triangle)
           i_fp1 == FirstFixedPoint(z_triangle_norm)
           z_fp1 == At(z_triangle_norm, i_fp1)
           i_fp2 == MaskedArgMax(z_triangle_norm, z_fp1, 1)
           i_fp3 == MaskedArgMax(z_triangle_norm, z_fp1, -1)
       IN /\ i_fp' = <<i_fp1, i_fp2, i_fp3>>
          /\ fp' = [x_fp |-> [k \in 1..3 |-> At(rec_triangle, i_fp'[k]).x],
                    px_fp |-> [k \in 1..3 |-> At(rec_triangle, i_fp'[k]).px],
                    x_norm_fp |-> [k \in 1..3 |-> At(z_triangle_norm, i_fp'[k]).x_norm],
                    px_norm_fp |-> [k \in 1..3 |-> At(z_triangle_norm, i_fp'[k]).px_norm]]
    /\ pc' = "area"
    /\ UNCHANGED <<plot, xstar, calls, record, x_stable, x_unstable, iterations,
                   testedCrossed, testedStayed, rec_separatrix, i_septum, poly_sep,
                   rec_triangle, i_sorted, curve, stable_area, figure, result>>

(***************************************************************************)
(* Area and reporting.                                                     *)
(***************************************************************************)
\* np.linalg.det([a, b, [1, 1, 1]])
Det3(a, b) == a[1] * (b[2] - b[3]) - a[2] * (b[1] - b[3]) + a[3] * (b[1] - b[2])

StableArea ==
    /\ pc = "area"
    /\ stable_area' = Det3(fp.x_norm_fp, fp.px_norm_fp)
    /\ pc' = "plot"
    /\ UNCHANGED <<plot, xstar, calls, record, x_stable, x_unstable, iterations,
                   testedCrossed, testedStayed, rec_separatrix, i_septum, poly_sep,
                   rec_triangle, i_sorted, curve, i_fp, fp, figure, result>>

\* rec_separatrix.x[mask_alive][ii::3] for ii = 0, 1, 2
Alive(s) == s.state > 0
Branch(rec, ii) ==
    LET alive == SelectSeq(rec, Alive)
        picks == {k \in 1..Len(alive) : (k - 1) % 3 = ii}
    IN [k \in 1..Cardinality(picks) |-> alive[3 * (k - 1) + ii + 1]]

\* Variant: the sampler's tracking done inside the plotting branch, which alone reads it.
PlotTracksCloud ==
    /\ pc = "plot"
    /\ plot = TRUE
    /\ calls' = Append(calls, XGen)
    /\ figure' = [cloud |-> XGen,
                  septum |-> X_SEPTUM,
                  separatrix |-> [ii \in 0..2 |-> Branch(rec_separatrix, ii)],
                  slope |-> poly_sep,
                  triangle |-> curve,
                  fixed_points |-> fp]
    /\ pc' = "return"
    /\ UNCHANGED <<plot, xstar, record, x_stable, x_unstable, iterations,
                   testedCrossed, testedStayed, rec_separatrix, i_septum, poly_sep,
                   rec_triangle, i_sorted, curve, i_fp, fp, stable_area, result>>

Plot ==
    /\ pc = "plot"
    /\ plot = TRUE
    /\ figure' = [cloud |-> record,
                  septum |-> X_SEPTUM,
                  separatrix |-> [ii \in 0..2 |-> Branch(rec_separatrix, ii)],
                  slope |-> poly_sep,
                  triangle |-> curve,
                  fixed_points |-> fp]
    /\ pc' = "return"
    /\ UNCHANGED <<plot, xstar, calls, record, x_stable, x_unstable, iterations,
                   testedCrossed, testedStayed, rec_separatrix, i_septum, poly_sep,
                   rec_triangle, i_sorted, curve, i_fp, fp, stable_area, result>>

SkipPlot ==
    /\ pc = "plot"
    /\ plot # TRUE
    /\ pc' = "return"
    /\ UNCHANGED <<plot, xstar, calls, record, x_stable, x_unstable, iterations,
                   testedCrossed, testedStayed, rec_separatrix, i_septum, poly_sep,
                   rec_triangle, i_sorted, curve, i_fp, fp, stable_area, figure,
                   result>>

Return ==
    /\ pc = "return"
    /\ result' = [stable_area |-> stable_area,
                  dpx_dx_at_septum |-> <<poly_sep.dpx, poly_sep.dx>>,
                  x_fixed_points |-> fp.x_fp,
                  px_fixed_points |-> fp.px_fp,
                  x_norm_fixed_points |-> fp.x_norm_fp,
                  px_norm_fixed_points |-> fp.px_norm_fp]
    /\ pc' = "done"
    /\ UNCHANGED <<plot, xstar, calls, record, x_stable, x_unstable, iterations,
                   testedCrossed, testedStayed, rec_separatrix, i_septum, poly_sep,
                   rec_triangle, i_sorted, curve, i_fp, fp, stable_area, figure>>

(***************************************************************************)
(* Specifications.                                                         *)
(***************************************************************************)
NextLocator == Sampler \/ BisectStep \/ LoopExit

\* The boundaries tried for the threshold tracker: on and next to the grid lines.
XStars ==
    {x \in {k * (X_UNSTABLE_0 \div XStarGrid) + d : k \in 0..XStarGrid, d \in {-1, 0, 1}} :
        0 < x /\ x <= X_UNSTABLE_0}

InitLocator ==
    /\ InitLocals
    /\ plot \in BOOLEAN
    /\ xstar \in XStars \cup {NoBoundary}

SpecLocator == InitLocator /\ [][NextLocator]_vars

\* The whole call, on lines whose tracker has a stability boundary: one inside
\* the starting bracket (0.0123456 m) and one above it.
LineBoundaries == {25283789, X_UNSTABLE_0 + 1}

Init ==
    /\ InitLocals
    /\ plot \in BOOLEAN
    /\ xstar \in LineBoundaries

Next ==
    \/ Sampler
    \/ BisectStep
    \/ LoopExit
    \/ TrackSeparatrix
    \/ SlopeAtSeptum
    \/ TrackTriangle
    \/ SortTriangle
    \/ FixedPoints
    \/ StableArea
    \/ Plot
    \/ SkipPlot
    \/ Return

Spec == Init /\ [][Next]_vars

(***************************************************************************)
(* Properties of the separatrix locator.                                   *)
(***************************************************************************)
LoopExited == pc \notin {"sample", "bisect"}

\* C1: with a tracker whose stability boundary xstar lies in the starting
\* bracket (X_STABLE_0 < xstar <= X_UNSTABLE_0), the loop exits with
\* x_stable < xstar <= x_unstable and a bracket no wider than the tolerance.
C1_BisectionConvergence ==
    (LoopExited /\ xstar # NoBoundary /\ X_STABLE_0 < xstar /\ xstar <= X_UNSTABLE_0)
        => /\ x_stable < xstar
           /\ xstar <= x_unstable
           /\ x_unstable - x_stable <= TOLERANCE

\* C1 witness: a threshold tracker's loop has exited after narrowing from both sides.
C1_Witness ==
    /\ LoopExited
    /\ xstar # NoBoundary
    /\ X_STABLE_0 < x_stable
    /\ x_unstable < X_UNSTABLE_0

\* C2: whatever the tracker answers, no step lowers x_stable, raises
\* x_unstable or widens the bracket.
C2_MonotonicNarrowing ==
    [][/\ x_stable' >= x_stable
       /\ x_unstable' <= x_unstable
       /\ x_unstable' - x_stable' <= x_unstable - x_stable]_vars

\* C2 witness: under an arbitrary tracker both ends have moved, the upper one twice.
C2_Witness ==
    /\ xstar = NoBoundary
    /\ Cardinality(testedCrossed) >= 2
    /\ Cardinality(testedStayed) >= 1
    /\ x_unstable < X_UNSTABLE_0
    /\ x_stable > X_STABLE_0

\* C3 as stated: at loop exit x_unstable is the smallest tested offset whose
\* trajectory went beyond the septum, and x_stable the largest tested offset
\* whose trajectory never did, for every tracker.
C3_Original ==
    LoopExited =>
        /\ x_unstable \in testedCrossed
        /\ \A t \in testedCrossed : x_unstable <= t
        /\ x_stable \in testedStayed
        /\ \A t \in testedStayed : t <= x_stable

\* C3 amended: that holds of each end once an offset of its kind has been
\* tested; until then the end is still its untested starting value.  It holds
\* after every iteration, and so when the loop exits.
C3_ExtremeTestedOrInitial ==
    /\ IF testedCrossed = {}
       THEN x_unstable = X_UNSTABLE_0
       ELSE x_unstable \in testedCrossed /\ \A t \in testedCrossed : x_unstable <= t
    /\ IF testedStayed = {}
       THEN x_stable = X_STABLE_0
       ELSE x_stable \in testedStayed /\ \A t \in testedStayed : t <= x_stable

\* C3 witness: an arbitrary tracker, offsets of both kinds tested, loop exited.
C3_Witness ==
    /\ LoopExited
    /\ xstar = NoBoundary
    /\ Cardinality(testedCrossed) >= 3
    /\ Cardinality(testedStayed) >= 3

\* Number of halvings that bring a width down to the tolerance.
RECURSIVE Halvings(_)
Halvings(w) == IF w > TOLERANCE THEN 1 + Halvings(w \div 2) ELSE 0

\* C6 as stated: while no tested offset has been classified unstable, the loop
\* has not terminated.
C6_Original ==
    (testedCrossed = {} /\ x_unstable = X_UNSTABLE_0) => ~LoopExited

\* C6 amended: the loop terminates whatever the tracker answers, after exactly
\* the number of halvings that bring the starting bracket within tolerance; if
\* no tested offset was unstable it exits with x_unstable still the untested
\* starting value and x_stable within tolerance of it.
C6_TerminatesAfterHalvings ==
    /\ iterations <= Halvings(X_UNSTABLE_0 - X_STABLE_0)
    /\ LoopExited => iterations = Halvings(X_UNSTABLE_0 - X_STABLE_0)
    /\ (LoopExited /\ testedCrossed = {})
           => /\ x_unstable = X_UNSTABLE_0
              /\ X_UNSTABLE_0 - x_stable <= TOLERANCE
              /\ Cardinality(testedStayed) = iterations

\* C6 witness: the loop has exited and no tested offset was unstable.
C6_Witness ==
    /\ LoopExited
    /\ testedCrossed = {}
    /\ iterations > 0

(***************************************************************************)
(* Properties of the characterizer and of the returned record.             *)
(***************************************************************************)
FixedPointsChosen == pc \in {"area", "plot", "return", "done"}
TriangleNorm == NormalisedOf(rec_triangle)

\* Twice the area of the triangle (x1,y1), (x2,y2), (x3,y3), by the shoelace sum.
TwiceTriangleArea(xs, ys) ==
    Abs(xs[1] * ys[2] - xs[2] * ys[1] + xs[2] * ys[3] - xs[3] * ys[2]
        + xs[3] * ys[1] - xs[1] * ys[3])

\* C4: the magnitude of stable_area is the area of the triangle of the three
\* fixed points in normalised coordinates.
C4_AreaMagnitude ==
    pc \in {"plot", "return", "done"}
        => 2 * Abs(stable_area) = TwiceTriangleArea(fp.x_norm_fp, fp.px_norm_fp)

\* The record the computation yields from the two trajectories, by itself.
Characterise(sep, tri) ==
    LET zn == NormalisedOf(tri)
        i1 == FirstFixedPoint(zn)
        idx == <<i1, MaskedArgMax(zn, At(zn, i1), 1), MaskedArgMax(zn, At(zn, i1), -1)>>
        i == ClosestToSeptum(sep)
        fit == PolyFit(PyIndex(sep, i - SLOPE_OFFSET), PyIndex(sep, i + SLOPE_OFFSET))
        xn == [k \in 1..3 |-> At(zn, idx[k]).x_norm]
        pn == [k \in 1..3 |-> At(zn, idx[k]).px_norm]
    IN [stable_area |-> Det3(xn, pn),
        dpx_dx_at_septum |-> <<fit.dpx, fit.dx>>,
        x_fixed_points |-> [k \in 1..3 |-> At(tri, idx[k]).x],
        px_fixed_points |-> [k \in 1..3 |-> At(tri, idx[k]).px],
        x_norm_fixed_points |-> xn,
        px_norm_fixed_points |-> pn]

computed == <<x_stable, x_unstable, rec_separatrix, i_septum, poly_sep, rec_triangle,
              i_sorted, curve, i_fp, fp, stable_area, result>>

\* C5: the plotting branch changes none of the computed values and issues no
\* tracking call, and with plot true or false the returned record is the one
\* the two trajectories determine and the calls are the sampler's, one per loop
\* iteration, x_unstable and x_stable, in that order.
C5_PlotLeavesDataAlone ==
    /\ [][pc = "plot" => (computed' = computed /\ calls' = calls)]_vars
    /\ [](pc = "done" =>
            /\ result = Characterise(rec_separatrix, rec_triangle)
            /\ Len(calls) = iterations + 3
            /\ calls[1] = XGen
            /\ calls[Len(calls) - 1] = x_unstable
            /\ calls[Len(calls)] = x_stable)

\* C5 witness: a call with plot = TRUE has drawn its figure and returned.
C5_Witness ==
    /\ pc = "done"
    /\ plot = TRUE
    /\ figure # None
    /\ result # None

\* C7: a closest-to-septum index within SLOPE_OFFSET of either end of the
\* separatrix trajectory ends the call with an index error.
C7_EdgeIndexRaises ==
    (pc \notin {"sample", "bisect", "track_separatrix", "slope"}
        /\ (i_septum < SLOPE_OFFSET \/ i_septum > NumTurns - 1 - SLOPE_OFFSET))
        => pc = "IndexError"

\* Whether some triangle sample lies in the disk around z1 turned by +/-120 degrees.
DiskHit(turn) ==
    \E k \in 1..Len(TriangleNorm) :
        WithinDisk(TriangleNorm[k], At(TriangleNorm, i_fp[1]), turn)

\* The sample chosen for a turn is inside the disk and no sample inside has a larger radius.
LargestInDisk(i, turn) ==
    /\ WithinDisk(At(TriangleNorm, i), At(TriangleNorm, i_fp[1]), turn)
    /\ \A k \in 1..Len(TriangleNorm) :
           WithinDisk(TriangleNorm[k], At(TriangleNorm, i_fp[1]), turn)
               => RadiusSq(TriangleNorm[k]) <= RadiusSq(At(TriangleNorm, i))

\* C8: with no sample in the +120 (-120) degree disk the second (third) fixed
\* point is sample 0 and the call goes on to return normally; with a sample in
\* the disk the fixed point is the sample of largest radius inside it.
C8_MaskMissFallsBackToZero ==
    /\ FixedPointsChosen =>
          /\ IF DiskHit(1) THEN LargestInDisk(i_fp[2], 1) ELSE i_fp[2] = 0
          /\ IF DiskHit(-1) THEN LargestInDisk(i_fp[3], -1) ELSE i_fp[3] = 0
    /\ (pc = "done" /\ ~DiskHit(1)) =>
          /\ result.x_norm_fixed_points[2] = At(TriangleNorm, 0).x_norm
          /\ result.px_norm_fixed_points[2] = At(TriangleNorm, 0).px_norm
    /\ (pc = "done" /\ ~DiskHit(-1)) =>
          /\ result.x_norm_fixed_points[3] = At(TriangleNorm, 0).x_norm
          /\ result.px_norm_fixed_points[3] = At(TriangleNorm, 0).px_norm

\* C8 witness: a call returned although the +120 degree disk was empty, the
\* -120 degree disk holding a sample other than sample 0.
C8_Witness ==
    /\ pc = "done"
    /\ ~DiskHit(1)
    /\ DiskHit(-1)
    /\ i_fp[3] # 0
    /\ result # None

\* C9: only samples recorded while the particle was alive are sorted into the
\* boundary curve or offered as fixed points.
C9_LostSamplesDiscarded ==
    /\ pc \in {"fixed_points", "area", "plot", "return", "done"} =>
          /\ \A k \in 1..Len(i_sorted) : Alive(At(rec_triangle, i_sorted[k]))
          /\ Len(curve) = Len(SelectSeq(rec_triangle, Alive))
    /\ FixedPointsChosen => \A k \in 1..3 : Alive(At(rec_triangle, i_fp[k]))

\* C10: three fixed points; the first is the sample of largest normalised
\* radius, the other two are samples other than it, and the physical and
\* normalised values of each come from one index of the unsorted trajectory.
C10_FixedPointSet ==
    FixedPointsChosen =>
        /\ Len(i_fp) = 3
        /\ \A k \in 1..Len(TriangleNorm) :
               RadiusSq(TriangleNorm[k]) <= RadiusSq(At(TriangleNorm, i_fp[1]))
        /\ i_fp[2] # i_fp[1]
        /\ i_fp[3] # i_fp[1]
        /\ \A k \in 1..3 :
               /\ fp.x_fp[k] = At(rec_triangle, i_fp[k]).x
               /\ fp.px_fp[k] = At(rec_triangle, i_fp[k]).px
               /\ fp.x_norm_fp[k] = At(TriangleNorm, i_fp[k]).x_norm
               /\ fp.px_norm_fp[k] = At(TriangleNorm, i_fp[k]).px_norm
====
